---- MODULE Spec2Model ----
(***************************************************************************)
(* Model of parse_input_file and find_media_files of create_anki_deck.py.  *)
(* A text is a sequence of one-character strings.  The string operations   *)
(* of the parser (split, splitlines, strip, upper, startswith, join and    *)
(* the two media regular expressions) are operators computed the way       *)
(* Python computes them; the loops of parse_input_file are the actions.    *)
(***************************************************************************)
EXTENDS Integers, Sequences, FiniteSets, TLC

VARIABLES
    content,          \* the text read from the file
    pc,               \* position in parse_input_file
    header,           \* dict: key text -> value text
    cards,            \* list of card records
    header_lines,     \* header_content.splitlines()
    hi,               \* index of the next header line
    blocks,           \* cards_content.split('---')
    bi,               \* index of the next block
    current_subdeck,  \* running subdeck name
    block_lines,      \* block.splitlines() of the card block being parsed
    li,               \* index of the next line of the card block
    card_data,        \* {'FRONT': [...], 'BACK': [...]}
    current_field,    \* None / 'FRONT' / 'BACK'
    card_block        \* for every card of cards, the index of its block

vars == <<content, pc, header, cards, header_lines, hi, blocks, bi,
          current_subdeck, block_lines, li, card_data, current_field,
          card_block>>

----------------------------------------------------------------------------
(* Characters and literals of the source.                                  *)

NL == "\n"
CR == "\r"
FF == "\f"
TAB == "\t"
SP == " "

\* str.isspace for the characters of the model
IsSpace(c) == c \in {SP, TAB, NL, CR, FF}

\* the line boundaries of str.splitlines
IsLineBreak(c) == c \in {NL, CR, FF}

UpperMap ==
    [c \in {"a","b","c","d","e","f","g","h","i","j","k","l","m","n","o","p",
            "q","r","s","t","u","v","w","x","y","z"} |->
        CASE c = "a" -> "A" [] c = "b" -> "B" [] c = "c" -> "C" [] c = "d" -> "D"
          [] c = "e" -> "E" [] c = "f" -> "F" [] c = "g" -> "G" [] c = "h" -> "H"
          [] c = "i" -> "I" [] c = "j" -> "J" [] c = "k" -> "K" [] c = "l" -> "L"
          [] c = "m" -> "M" [] c = "n" -> "N" [] c = "o" -> "O" [] c = "p" -> "P"
          [] c = "q" -> "Q" [] c = "r" -> "R" [] c = "s" -> "S" [] c = "t" -> "T"
          [] c = "u" -> "U" [] c = "v" -> "V" [] c = "w" -> "W" [] c = "x" -> "X"
          [] c = "y" -> "Y" [] c = "z" -> "Z"]

UpperChar(c) == IF c \in DOMAIN UpperMap THEN UpperMap[c] ELSE c

\* str.upper
Upper(s) == [i \in 1..Len(s) |-> UpperChar(s[i])]

DELIM == <<"-", "-", "-">>
COLON == <<":">>
HASH == <<"#">>
FRONT_MARK == <<"F", "R", "O", "N", "T", ":">>
BACK_MARK == <<"B", "A", "C", "K", ":">>
SUBDECK_MARK == <<"S", "U", "B", "D", "E", "C", "K", ":">>
BR == <<"<", "b", "r", ">">>
IMG_OPEN == <<"<", "I", "M", "G", " ", "S", "R", "C", "=", "\"">>
SOUND_OPEN == <<"[", "S", "O", "U", "N", "D", ":">>

----------------------------------------------------------------------------
(* String operations.                                                      *)

\* s[i:] of Python with 0-based i, i.e. the text after the first i characters
Drop(s, i) == SubSeq(s, i + 1, Len(s))

\* does sub occur in s at (1-based) position i
OccursAt(s, sub, i) ==
    /\ i >= 1
    /\ i + Len(sub) - 1 <= Len(s)
    /\ \A j \in 1..Len(sub) : s[i + j - 1] = sub[j]

\* str.startswith
StartsWith(s, p) == OccursAt(s, p, 1)

\* does the upper-case literal sub match s at position i, ignoring case
OccursAtIgnoreCase(s, sub, i) ==
    /\ i >= 1
    /\ i + Len(sub) - 1 <= Len(s)
    /\ \A j \in 1..Len(sub) : UpperChar(s[i + j - 1]) = sub[j]

RECURSIVE FindFrom(_, _, _)
\* str.find(sub, i): the least position >= i where sub occurs, 0 when none
FindFrom(s, sub, i) ==
    IF i + Len(sub) - 1 > Len(s) THEN 0
    ELSE IF OccursAt(s, sub, i) THEN i
    ELSE FindFrom(s, sub, i + 1)

\* sub in s
Contains(s, sub) == FindFrom(s, sub, 1) # 0

\* str.split(sep, 1)
SplitOnce(s, sep) ==
    LET i == FindFrom(s, sep, 1)
    IN  IF i = 0 THEN <<s>>
        ELSE <<SubSeq(s, 1, i - 1), Drop(s, i + Len(sep) - 1)>>

RECURSIVE SplitAll(_, _)
\* str.split(sep)
SplitAll(s, sep) ==
    LET i == FindFrom(s, sep, 1)
    IN  IF i = 0 THEN <<s>>
        ELSE <<SubSeq(s, 1, i - 1)>> \o SplitAll(Drop(s, i + Len(sep) - 1), sep)

RECURSIVE FirstBreak(_, _)
\* position of the first line boundary of s at or after i, 0 when none
FirstBreak(s, i) ==
    IF i > Len(s) THEN 0
    ELSE IF IsLineBreak(s[i]) THEN i
    ELSE FirstBreak(s, i + 1)

RECURSIVE SplitLines(_)
\* str.splitlines(): "\r\n" is one boundary, no empty line after a final one
SplitLines(s) ==
    IF s = <<>> THEN <<>>
    ELSE LET i == FirstBreak(s, 1)
         IN  IF i = 0 THEN <<s>>
             ELSE LET w == IF s[i] = CR /\ i < Len(s) /\ s[i + 1] = NL
                           THEN 2 ELSE 1
                  IN  <<SubSeq(s, 1, i - 1)>> \o SplitLines(Drop(s, i + w - 1))

RECURSIVE LStrip(_)
LStrip(s) ==
    IF s # <<>> /\ IsSpace(s[1]) THEN LStrip(Tail(s)) ELSE s

RECURSIVE RStrip(_)
RStrip(s) ==
    IF s # <<>> /\ IsSpace(s[Len(s)]) THEN RStrip(SubSeq(s, 1, Len(s) - 1)) ELSE s

\* str.strip()
Strip(s) == RStrip(LStrip(s))

RECURSIVE Join(_, _)
\* sep.join(frags)
Join(frags, sep) ==
    IF frags = <<>> THEN <<>>
    ELSE IF Len(frags) = 1 THEN frags[1]
    ELSE frags[1] \o sep \o Join(Tail(frags), sep)

----------------------------------------------------------------------------
(* find_media_files: the two regular expressions, matched left to right,   *)
(* without overlap, ignoring case.                                         *)

RECURSIVE FindChar(_, _, _)
\* least position >= i of character c in s, 0 when none
FindChar(s, c, i) ==
    IF i > Len(s) THEN 0
    ELSE IF s[i] = c THEN i
    ELSE FindChar(s, c, i + 1)

RECURSIVE SkipSpaces(_, _)
\* \s* : the first position >= i that holds no whitespace
SkipSpaces(s, i) ==
    IF i <= Len(s) /\ IsSpace(s[i]) THEN SkipSpaces(s, i + 1) ELSE i

\* end position of a match of  <img src="([^"]+)"\s*\/?>  starting at i (0: none)
\* and the position of the closing quote
ImgClose(s, i) == FindChar(s, "\"", i + Len(IMG_OPEN))

ImgEnd(s, i) ==
    LET q == ImgClose(s, i)
    IN  IF ~OccursAtIgnoreCase(s, IMG_OPEN, i) \/ q = 0 \/ q = i + Len(IMG_OPEN)
        THEN 0
        ELSE LET j == SkipSpaces(s, q + 1)
                 k == IF j <= Len(s) /\ s[j] = "/" THEN j + 1 ELSE j
             IN  IF k <= Len(s) /\ s[k] = ">" THEN k ELSE 0

RECURSIVE ImgMatches(_, _)
\* img_pattern.findall(text) as a set, scanning from position i
ImgMatches(s, i) ==
    IF i > Len(s) THEN {}
    ELSE LET e == ImgEnd(s, i)
         IN  IF e = 0 THEN ImgMatches(s, i + 1)
             ELSE {SubSeq(s, i + Len(IMG_OPEN), ImgClose(s, i) - 1)}
                      \cup ImgMatches(s, e + 1)

\* end position of a match of  \[sound:([^\]]+)\]  starting at i (0: none)
SoundEnd(s, i) ==
    LET q == FindChar(s, "]", i + Len(SOUND_OPEN))
    IN  IF ~OccursAtIgnoreCase(s, SOUND_OPEN, i) \/ q = i + Len(SOUND_OPEN)
        THEN 0 ELSE q

RECURSIVE SoundMatches(_, _)
\* sound_pattern.findall(text) as a set, scanning from position i
SoundMatches(s, i) ==
    IF i > Len(s) THEN {}
    ELSE LET e == SoundEnd(s, i)
         IN  IF e = 0 THEN SoundMatches(s, i + 1)
             ELSE {SubSeq(s, i + Len(SOUND_OPEN), e - 1)}
                      \cup SoundMatches(s, e + 1)

find_media_files(text) == ImgMatches(text, 1) \cup SoundMatches(text, 1)

----------------------------------------------------------------------------
(* The conditions and assignments of parse_input_file.                     *)

\* the value None of current_field
NONE == "NONE"

EmptyHeader == [k \in {} |-> <<>>]
EmptyCardData == [FRONT |-> <<>>, BACK |-> <<>>]

\* mutant: the first occurrence of a key wins
HeaderPutFirst(h, key, value) ==
    [k \in DOMAIN h \cup {key} |-> IF k \in DOMAIN h THEN h[k] ELSE value]

\* header[key] = value
HeaderPut(h, key, value) ==
    [k \in DOMAIN h \cup {key} |-> IF k = key THEN value ELSE h[k]]

\* ':' in line and not line.strip().startswith('#')
HeaderLineAccepted(line) ==
    Contains(line, COLON) /\ ~StartsWith(Strip(line), HASH)

\* key, value = line.split(':', 1) raises unless there are two parts
HeaderUnpackFails(line) == Len(SplitOnce(line, COLON)) # 2

HeaderKey(line) == Upper(Strip(SplitOnce(line, COLON)[1]))
HeaderValue(line) == Strip(SplitOnce(line, COLON)[2])

\* mutant: the body split without maxsplit, its second part taken
CardsContentSecondPart(text) ==
    IF Len(SplitAll(text, DELIM)) > 1 THEN SplitAll(text, DELIM)[2] ELSE <<>>

\* parts = content.split('---', 1)
Parts(text) == SplitOnce(text, DELIM)
HeaderContent(text) == Parts(text)[1]
CardsContent(text) == IF Len(Parts(text)) > 1 THEN Parts(text)[2] ELSE <<>>

\* mutant: empty blocks are not skipped
SkipBlockNever(block) == FALSE

\* if not block: continue
SkipBlock(block) == block = <<>>

\* block.splitlines()[0] raises IndexError on a block without lines
FirstLineFails(block) == SplitLines(block) = <<>>
FirstLine(block) == Strip(SplitLines(block)[1])

\* first_line.upper().startswith('SUBDECK:')
IsSubdeckDecl(first_line) == StartsWith(Upper(first_line), SUBDECK_MARK)

\* mutant: the subdeck name is not stripped
SubdeckValueUntrimmed(first_line) == SplitOnce(first_line, COLON)[2]

\* first_line.split(':', 1)[1] raises IndexError when ':' is absent
SubdeckFails(first_line) == Len(SplitOnce(first_line, COLON)) < 2
SubdeckValue(first_line) == Strip(SplitOnce(first_line, COLON)[2])

\* if not line or line.startswith('#'): continue      (line already stripped)
SkipLine(line) == line = <<>> \/ StartsWith(line, HASH)

\* mutant: a marker does not move a cursor that is already set
FieldOfSticky(line, field) ==
    IF field # "NONE" THEN field
    ELSE IF StartsWith(Upper(line), FRONT_MARK) THEN "FRONT"
    ELSE IF StartsWith(Upper(line), BACK_MARK) THEN "BACK"
    ELSE field

\* the field a stripped line switches to, or the field the cursor already names
FieldOf(line, field) ==
    IF StartsWith(Upper(line), FRONT_MARK) THEN "FRONT"
    ELSE IF StartsWith(Upper(line), BACK_MARK) THEN "BACK"
    ELSE field

\* the stripped line with its marker cut off: line[len('FRONT:'):]
AfterMarker(line) ==
    IF StartsWith(Upper(line), FRONT_MARK) THEN Drop(line, Len(FRONT_MARK))
    ELSE IF StartsWith(Upper(line), BACK_MARK) THEN Drop(line, Len(BACK_MARK))
    ELSE line

\* mutant: the fragment is appended without strip()
AppendFragmentUntrimmed(data, field, line) ==
    [data EXCEPT ![field] = Append(@, line)]

\* card_data[current_field].append(line.strip())
AppendFragment(data, field, line) ==
    [data EXCEPT ![field] = Append(@, Strip(line))]

\* mutant: 'or' in place of 'and'
CardCompleteEither(data) == data.FRONT # <<>> \/ data.BACK # <<>>

\* if card_data['FRONT'] and card_data['BACK']
CardComplete(data) == data.FRONT # <<>> /\ data.BACK # <<>>

FieldText(frags) == Join(frags, BR)

\* the dict appended to cards
MakeCard(data, subdeck) ==
    [front |-> FieldText(data.FRONT),
     back |-> FieldText(data.BACK),
     subdeck |-> subdeck,
     media_files |-> find_media_files(FieldText(data.FRONT))
                         \cup find_media_files(FieldText(data.BACK))]

----------------------------------------------------------------------------
(* The steps of parse_input_file on a record p of the program's state.     *)

\* the state before line 53, content read
Start(text) ==
    [content |-> text, pc |-> "start", header |-> EmptyHeader, cards |-> <<>>,
     header_lines |-> <<>>, hi |-> 1, blocks |-> <<>>, bi |-> 1,
     current_subdeck |-> <<>>, block_lines |-> <<>>, li |-> 1,
     card_data |-> EmptyCardData, current_field |-> NONE, card_block |-> <<>>]

\* lines 53-57 and the evaluation of the two loops' iterables
SplitStep(p) ==
    [p EXCEPT !.pc = "header",
              !.header_lines = SplitLines(HeaderContent(p.content)),
              !.blocks = SplitAll(CardsContent(p.content), DELIM)]

\* one iteration of the header loop, lines 60-63
HeaderLineStep(p) ==
    LET line == p.header_lines[p.hi]
    IN  IF ~HeaderLineAccepted(line) THEN [p EXCEPT !.hi = @ + 1]
        ELSE IF HeaderUnpackFails(line) THEN [p EXCEPT !.pc = "error"]
        ELSE [p EXCEPT !.hi = @ + 1,
                       !.header = HeaderPut(@, HeaderKey(line), HeaderValue(line))]

\* the header loop is exhausted, line 66
HeaderDoneStep(p) == [p EXCEPT !.pc = "blocks", !.current_subdeck = <<>>]

\* mutant: card_data and current_field are set once, before the block loop
BlockStepNoReset(p) ==
    LET block == Strip(p.blocks[p.bi])
    IN  IF SkipBlock(block) THEN [p EXCEPT !.bi = @ + 1]
        ELSE IF FirstLineFails(block) THEN [p EXCEPT !.pc = "error"]
        ELSE IF IsSubdeckDecl(FirstLine(block))
        THEN IF SubdeckFails(FirstLine(block)) THEN [p EXCEPT !.pc = "error"]
             ELSE [p EXCEPT !.bi = @ + 1,
                            !.current_subdeck = SubdeckValue(FirstLine(block))]
        ELSE [p EXCEPT !.pc = "lines",
                       !.block_lines = SplitLines(block),
                       !.li = 1]

\* one iteration of the block loop up to the inner loop, lines 67-81
BlockStep(p) ==
    LET block == Strip(p.blocks[p.bi])
    IN  IF SkipBlock(block) THEN [p EXCEPT !.bi = @ + 1]
        ELSE IF FirstLineFails(block) THEN [p EXCEPT !.pc = "error"]
        ELSE IF IsSubdeckDecl(FirstLine(block))
        THEN IF SubdeckFails(FirstLine(block)) THEN [p EXCEPT !.pc = "error"]
             ELSE [p EXCEPT !.bi = @ + 1,
                            !.current_subdeck = SubdeckValue(FirstLine(block))]
        ELSE [p EXCEPT !.pc = "lines",
                       !.card_data = EmptyCardData,
                       !.current_field = NONE,
                       !.block_lines = SplitLines(block),
                       !.li = 1]

\* one iteration of the line loop, lines 82-93
CardLineStep(p) ==
    LET line == Strip(p.block_lines[p.li])
        field == FieldOf(line, p.current_field)
    IN  IF SkipLine(line) THEN [p EXCEPT !.li = @ + 1]
        ELSE IF field # NONE
        THEN [p EXCEPT !.li = @ + 1,
                       !.current_field = field,
                       !.card_data = AppendFragment(@, field, AfterMarker(line))]
        ELSE [p EXCEPT !.li = @ + 1]

\* the end of a card block, lines 95-103
EmitStep(p) ==
    IF CardComplete(p.card_data)
    THEN [p EXCEPT !.pc = "blocks", !.bi = @ + 1,
                   !.cards = Append(@, MakeCard(p.card_data, p.current_subdeck)),
                   !.card_block = Append(@, p.bi)]
    ELSE [p EXCEPT !.pc = "blocks", !.bi = @ + 1]

\* return header, cards, line 105
ReturnStep(p) == [p EXCEPT !.pc = "done"]

\* the step the program takes next from p
Step(p) ==
    CASE p.pc = "start" -> SplitStep(p)
      [] p.pc = "header" /\ p.hi <= Len(p.header_lines) -> HeaderLineStep(p)
      [] p.pc = "header" /\ p.hi > Len(p.header_lines) -> HeaderDoneStep(p)
      [] p.pc = "blocks" /\ p.bi <= Len(p.blocks) -> BlockStep(p)
      [] p.pc = "blocks" /\ p.bi > Len(p.blocks) -> ReturnStep(p)
      [] p.pc = "lines" /\ p.li <= Len(p.block_lines) -> CardLineStep(p)
      [] p.pc = "lines" /\ p.li > Len(p.block_lines) -> EmitStep(p)

RECURSIVE Run(_)
Run(p) == IF p.pc \in {"done", "error"} THEN p ELSE Run(Step(p))

\* parse_input_file on the text of a readable file: the state at its return
\* (pc = "done", with header and cards) or at the raise (pc = "error")
parse_input_file(text) == Run(Start(text))

----------------------------------------------------------------------------
(* Input texts: every concatenation of at most MaxBlocks block chunks and   *)
(* every concatenation of at most MaxLines line chunks.  The file is read   *)
(* in text mode, so the text holds no carriage return.                      *)

MaxBlocks == 4
MaxLines == 4

\* '---\nSUBDECK: x:y\n'
DIR_X ==
    <<"-", "-", "-", NL, "S", "U", "B", "D", "E", "C", "K", ":", " ", "x", ":", "y", NL>>

\* '---\nsubdeck:\n'
DIR_EMPTY ==
    <<"-", "-", "-", NL, "s", "u", "b", "d", "e", "c", "k", ":", NL>>

\* '---\nFRONT: a\nBACK: [sound:s]\n'
CARD_SOUND ==
    <<"-", "-", "-", NL, "F", "R", "O", "N", "T", ":", " ", "a", NL, "B", "A", "C", "K", ":", " ", "[", "s", "o", "u", "n", "d", ":", "s", "]", NL>>

\* '---\nfront: <img src="i"/>\nc\nBACK: b\n'
CARD_IMG ==
    <<"-", "-", "-", NL, "f", "r", "o", "n", "t", ":", " ", "<", "i", "m", "g", " ", "s", "r", "c", "=", "\"", "i", "\"", "/", ">", NL, "c", NL, "B", "A", "C", "K", ":", " ", "b", NL>>

\* '---\nFRONT: b\n'
CARD_HALF ==
    <<"-", "-", "-", NL, "F", "R", "O", "N", "T", ":", " ", "b", NL>>

\* '---\n# c\nSUBDECK: y\n'
DIR_AFTER_COMMENT ==
    <<"-", "-", "-", NL, "#", " ", "c", NL, "S", "U", "B", "D", "E", "C", "K", ":", " ", "y", NL>>

\* '---\nSUBDECK: z\nFRONT: a\nBACK: b\n'
DIR_WITH_FIELDS ==
    <<"-", "-", "-", NL, "S", "U", "B", "D", "E", "C", "K", ":", " ", "z", NL, "F", "R", "O", "N", "T", ":", " ", "a", NL, "B", "A", "C", "K", ":", " ", "b", NL>>

\* 'NAME: #d:e\n'
HEADER_NAME ==
    <<"N", "A", "M", "E", ":", " ", "#", "d", ":", "e", NL>>

\* '---\n'
LINE_DELIM ==
    <<"-", "-", "-", NL>>

\* 'FRONT:\n'
LINE_FRONT_EMPTY ==
    <<"F", "R", "O", "N", "T", ":", NL>>

\* ' back: b \n'
LINE_BACK ==
    <<" ", "b", "a", "c", "k", ":", " ", "b", " ", NL>>

\* '-- x\n'
LINE_PLAIN ==
    <<"-", "-", " ", "x", NL>>

\* '#c:d\n'
LINE_COMMENT ==
    <<"#", "c", ":", "d", NL>>

\* 'k : v\n'
LINE_KEY_LOWER ==
    <<"k", " ", ":", " ", "v", NL>>

\* 'K:w\n'
LINE_KEY_UPPER ==
    <<"K", ":", "w", NL>>

\* 'FRONT: a\t\x0c'
LINE_FRONT_FF ==
    <<"F", "R", "O", "N", "T", ":", " ", "a", TAB, FF>>

BlockChunks ==
    {DIR_X, DIR_EMPTY, CARD_SOUND, CARD_IMG, CARD_HALF, DIR_AFTER_COMMENT, DIR_WITH_FIELDS, HEADER_NAME}

LineChunks ==
    {LINE_DELIM, LINE_FRONT_EMPTY, LINE_BACK, LINE_PLAIN, LINE_COMMENT, LINE_KEY_LOWER, LINE_KEY_UPPER, LINE_FRONT_FF}

RECURSIVE Flatten(_)
Flatten(chunks) ==
    IF chunks = <<>> THEN <<>> ELSE Head(chunks) \o Flatten(Tail(chunks))

Texts(chunks, n) ==
    {Flatten(cs) : cs \in UNION {[1..k -> chunks] : k \in 0..n}}

Inputs == Texts(BlockChunks, MaxBlocks) \cup Texts(LineChunks, MaxLines)

----------------------------------------------------------------------------
(* The state machine.                                                      *)

\* the program's state as a record
Cur ==
    [content |-> content, pc |-> pc, header |-> header, cards |-> cards,
     header_lines |-> header_lines, hi |-> hi, blocks |-> blocks, bi |-> bi,
     current_subdeck |-> current_subdeck, block_lines |-> block_lines,
     li |-> li, card_data |-> card_data, current_field |-> current_field,
     card_block |-> card_block]

\* the program moves to state p
Becomes(p) ==
    /\ content' = p.content
    /\ pc' = p.pc
    /\ header' = p.header
    /\ cards' = p.cards
    /\ header_lines' = p.header_lines
    /\ hi' = p.hi
    /\ blocks' = p.blocks
    /\ bi' = p.bi
    /\ current_subdeck' = p.current_subdeck
    /\ block_lines' = p.block_lines
    /\ li' = p.li
    /\ card_data' = p.card_data
    /\ current_field' = p.current_field
    /\ card_block' = p.card_block

\* the program is in state p
Is(p) ==
    /\ content = p.content
    /\ pc = p.pc
    /\ header = p.header
    /\ cards = p.cards
    /\ header_lines = p.header_lines
    /\ hi = p.hi
    /\ blocks = p.blocks
    /\ bi = p.bi
    /\ current_subdeck = p.current_subdeck
    /\ block_lines = p.block_lines
    /\ li = p.li
    /\ card_data = p.card_data
    /\ current_field = p.current_field
    /\ card_block = p.card_block

Init == \E text \in Inputs : Is(Start(text))

Split == pc = "start" /\ Becomes(SplitStep(Cur))

HeaderLine ==
    pc = "header" /\ hi <= Len(header_lines) /\ Becomes(HeaderLineStep(Cur))

HeaderDone ==
    pc = "header" /\ hi > Len(header_lines) /\ Becomes(HeaderDoneStep(Cur))

Block == pc = "blocks" /\ bi <= Len(blocks) /\ Becomes(BlockStep(Cur))

CardLine ==
    pc = "lines" /\ li <= Len(block_lines) /\ Becomes(CardLineStep(Cur))

Emit == pc = "lines" /\ li > Len(block_lines) /\ Becomes(EmitStep(Cur))

Return == pc = "blocks" /\ bi > Len(blocks) /\ Becomes(ReturnStep(Cur))

Next ==
    \/ Split
    \/ HeaderLine
    \/ HeaderDone
    \/ Block
    \/ CardLine
    \/ Emit
    \/ Return

Spec == Init /\ [][Next]_vars

----------------------------------------------------------------------------
(* Vocabulary of the properties, stated on texts and not on the parser's   *)
(* own conditions.                                                         *)

Max(S) == CHOOSE x \in S : \A y \in S : y <= x

\* the first non-space character of the line is '#'
CommentLine(line) == LStrip(line) # <<>> /\ LStrip(line)[1] = "#"

\* the line holds only whitespace
BlankLine(line) == \A i \in 1..Len(line) : IsSpace(line[i])

\* the trimmed line begins with the marker, in any case
BeginsWith(line, marker) == OccursAtIgnoreCase(LStrip(line), marker, 1)

\* the lines of a block, the block trimmed
LinesOf(block) == SplitLines(Strip(block))

NonEmptyBlock(block) == Strip(block) # <<>>

\* the block's first line is a SUBDECK: directive
DirectiveBlock(block) ==
    NonEmptyBlock(block) /\ BeginsWith(LinesOf(block)[1], SUBDECK_MARK)

\* the text after the first ':' of the directive line, trimmed
DirectiveName(block) ==
    LET line == LinesOf(block)[1]
    IN  Strip(Drop(line, FindChar(line, ":", 1)))

\* the block has a non-comment line that begins with the marker
HasMarkerLine(block, marker) ==
    \E i \in 1..Len(LinesOf(block)) :
        /\ ~CommentLine(LinesOf(block)[i])
        /\ BeginsWith(LinesOf(block)[i], marker)

\* the subdeck in force at block n: the name of the last directive block
\* before it, or the empty string
SubdeckAt(n) ==
    LET D == {j \in 1..(n - 1) : DirectiveBlock(blocks[j])}
    IN  IF D = {} THEN <<>> ELSE DirectiveName(blocks[Max(D)])

\* the cards that came from block j
CardsOfBlock(j) == {k \in 1..Len(cards) : card_block[k] = j}

----------------------------------------------------------------------------
\* C1: every card's subdeck is the trimmed name of the last SUBDECK: directive
\* block before the card's block, or empty when there is none, and the running
\* subdeck at every block is that name too: card blocks and dropped blocks
\* leave it alone, an empty directive resets it to the empty string.
C1_SubdeckIsLastDirective ==
    /\ \A k \in 1..Len(cards) : cards[k].subdeck = SubdeckAt(card_block[k])
    /\ pc \in {"blocks", "lines", "done"} => current_subdeck = SubdeckAt(bi)

\* a card under a named subdeck, then an empty directive, then a card in the
\* base deck
C1_Witness ==
    /\ pc = "done"
    /\ \E k1, k2 \in 1..Len(cards) :
          /\ k1 < k2
          /\ cards[k1].subdeck # <<>>
          /\ cards[k2].subdeck = <<>>
          /\ \E j \in (card_block[k1] + 1)..(card_block[k2] - 1) :
                DirectiveBlock(blocks[j]) /\ DirectiveName(blocks[j]) = <<>>

\* C2: every card has a non-empty front and a non-empty back.
C2_FieldsNonEmpty ==
    \A k \in 1..Len(cards) : cards[k].front # <<>> /\ cards[k].back # <<>>

\* C3: a non-empty block yields at most one card, and yields one exactly when
\* its first line is no SUBDECK: directive and it has a non-comment line
\* beginning with FRONT: and one beginning with BACK: (lines trimmed, any case).
C3_CardIffBothMarkers ==
    pc = "done" =>
        \A j \in 1..Len(blocks) :
            NonEmptyBlock(blocks[j]) =>
                /\ Cardinality(CardsOfBlock(j)) <= 1
                /\ Cardinality(CardsOfBlock(j)) = 1
                     <=> /\ ~DirectiveBlock(blocks[j])
                         /\ HasMarkerLine(blocks[j], FRONT_MARK)
                         /\ HasMarkerLine(blocks[j], BACK_MARK)

\* a block that gave a card, a block with FRONT only that gave none, and a
\* directive block with both markers that gave none
C3_Witness ==
    /\ pc = "done"
    /\ \E j \in 1..Len(blocks) : CardsOfBlock(j) # {}
    /\ \E j \in 1..Len(blocks) :
          /\ HasMarkerLine(blocks[j], FRONT_MARK)
          /\ ~HasMarkerLine(blocks[j], BACK_MARK)
          /\ CardsOfBlock(j) = {}
    /\ \E j \in 1..Len(blocks) :
          /\ DirectiveBlock(blocks[j])
          /\ HasMarkerLine(blocks[j], FRONT_MARK)
          /\ HasMarkerLine(blocks[j], BACK_MARK)
          /\ CardsOfBlock(j) = {}

\* more than the lines of any block and the lines of the header
Radix == Len(content) + 3

\* a bound on the steps left before the return: the blocks left, and within
\* the header or a block the lines left
StepsLeft ==
    CASE pc = "start" -> Radix * Radix
      [] pc = "header" ->
            (Len(blocks) + 1) * Radix + (Len(header_lines) + 1 - hi)
      [] pc = "blocks" -> (Len(blocks) + 1 - bi) * Radix + Radix - 1
      [] pc = "lines" ->
            (Len(blocks) + 1 - bi) * Radix + (Len(block_lines) + 1 - li)
      [] OTHER -> 0

\* C4: parsing never raises (the first line is never taken of a block without
\* lines, no unpacking or indexing fails), and it completes: every step lowers
\* a bound on the steps left, which reaches zero exactly at the return.
C4_NeverRaisesAndReturns ==
    [][/\ pc' # "error"
       /\ StepsLeft' < StepsLeft
       /\ StepsLeft' >= 0
       /\ StepsLeft' = 0 <=> pc' = "done"]_vars

\* a returned parse of a text with an empty block, a dropped block and a
\* header line without ':'
C4_Witness ==
    /\ pc = "done"
    /\ \E j \in 1..Len(blocks) : ~NonEmptyBlock(blocks[j])
    /\ \E j \in 1..Len(blocks) : NonEmptyBlock(blocks[j]) /\ CardsOfBlock(j) = {}
    /\ \E i \in 1..Len(header_lines) :
          ~BlankLine(header_lines[i]) /\ FindChar(header_lines[i], ":", 1) = 0

\* the header lines that count: they hold ':' and are no comment
KeyLines(lines) ==
    {i \in 1..Len(lines) : FindChar(lines[i], ":", 1) # 0 /\ ~CommentLine(lines[i])}

KeyOf(line) == Upper(Strip(SubSeq(line, 1, FindChar(line, ":", 1) - 1)))
ValueOf(line) == Strip(Drop(line, FindChar(line, ":", 1)))

\* the mapping the lines describe: for every key, the value of its last line
HeaderOf(lines) ==
    [K \in {KeyOf(lines[i]) : i \in KeyLines(lines)} |->
        ValueOf(lines[Max({i \in KeyLines(lines) : KeyOf(lines[i]) = K})])]

\* C5: the header has one entry per distinct upper-cased, trimmed key of the
\* header-region lines that hold ':' and are no comment, with the trimmed
\* value of the last such line of that key.
C5_HeaderLastWins ==
    pc \in {"blocks", "lines", "done"} => header = HeaderOf(header_lines)

\* two lines whose keys differ only in case, with different values, and a
\* line without ':'
C5_Witness ==
    /\ pc = "done"
    /\ \E i, j \in KeyLines(header_lines) :
          /\ i < j
          /\ SubSeq(header_lines[i], 1, 1) # SubSeq(header_lines[j], 1, 1)
          /\ KeyOf(header_lines[i]) = KeyOf(header_lines[j])
          /\ ValueOf(header_lines[i]) # ValueOf(header_lines[j])
    /\ \E i \in 1..Len(header_lines) :
          ~BlankLine(header_lines[i]) /\ FindChar(header_lines[i], ":", 1) = 0

\* the text before the first '---' (the whole text when there is none)
BeforeDelim(text) ==
    IF FindFrom(text, DELIM, 1) = 0 THEN text
    ELSE SubSeq(text, 1, FindFrom(text, DELIM, 1) - 1)

\* the text after the first '---'
AfterDelim(text) == Drop(text, FindFrom(text, DELIM, 1) + Len(DELIM) - 1)

\* C6: the header comes from the text before the first '---' alone; without a
\* '---' there are no cards; with one, the cards come from the text after it
\* alone, which is cut at every further '---'.
C6_FirstDelimiterSplits ==
    pc = "done" =>
        /\ header = HeaderOf(SplitLines(BeforeDelim(content)))
        /\ FindFrom(content, DELIM, 1) = 0 => cards = <<>>
        /\ FindFrom(content, DELIM, 1) # 0 =>
              /\ cards = parse_input_file(DELIM \o AfterDelim(content)).cards
              /\ Join(blocks, DELIM) = AfterDelim(content)
              /\ \A j \in 1..Len(blocks) : ~Contains(blocks[j], DELIM)

\* a text with header entries, several blocks, a card, and after the first
\* '---' a line of the form KEY: value whose key is not in the header
C6_Witness ==
    /\ pc = "done"
    /\ DOMAIN header # {}
    /\ Len(blocks) >= 2
    /\ cards # <<>>
    /\ \E i \in KeyLines(SplitLines(AfterDelim(content))) :
          KeyOf(SplitLines(AfterDelim(content))[i]) \notin DOMAIN header

RECURSIVE SeqOf(_)
\* the elements of a finite set in some order
SeqOf(S) ==
    IF S = {} THEN <<>>
    ELSE LET x == CHOOSE y \in S : TRUE IN <<x>> \o SeqOf(S \ {x})

\* one 'KEY: value' line per header entry
HeaderText(h) ==
    Flatten([i \in 1..Cardinality(DOMAIN h) |->
                SeqOf(DOMAIN h)[i] \o <<":", SP>> \o h[SeqOf(DOMAIN h)[i]] \o <<NL>>])

\* the lines '---', 'SUBDECK: <subdeck>', '---', 'FRONT: <front>', 'BACK: <back>'
CardText(c) ==
    DELIM \o <<NL>> \o SUBDECK_MARK \o <<SP>> \o c.subdeck \o <<NL>>
        \o DELIM \o <<NL>> \o FRONT_MARK \o <<SP>> \o c.front \o <<NL>>
        \o BACK_MARK \o <<SP>> \o c.back \o <<NL>>

Serialise(h, cs) ==
    HeaderText(h) \o Flatten([k \in 1..Len(cs) |-> CardText(cs[k])])

\* C7: parsing the serialisation of a parse result gives the same header and
\* the same cards (front, back, subdeck, media_files, in the same order).
C7_RoundTrip ==
    pc = "done" =>
        LET again == parse_input_file(Serialise(header, cards))
        IN  /\ again.pc = "done"
            /\ again.header = header
            /\ again.cards = cards

\* a result with a header entry, two cards in different subdecks, a field of
\* two fragments and a media reference
C7_Witness ==
    /\ pc = "done"
    /\ DOMAIN header # {}
    /\ \E k1, k2 \in 1..Len(cards) : cards[k1].subdeck # cards[k2].subdeck
    /\ \E k \in 1..Len(cards) :
          Contains(cards[k].front, BR) /\ cards[k].media_files # {}

\* what the block gives when it is the only block of the body
Alone(j) == parse_input_file(DELIM \o blocks[j])

\* the returned cards come in the order of their blocks, each card is what its
\* block gives when parsed alone, and every card block starts with an unset
\* cursor and empty fragment lists
C8_OrderAndIsolation ==
    /\ \A k1, k2 \in 1..Len(cards) : k1 < k2 => card_block[k1] < card_block[k2]
    /\ pc = "done" =>
          \A k \in 1..Len(cards) :
              LET alone == Alone(card_block[k]).cards
              IN  /\ Len(alone) = 1
                  /\ alone[1].front = cards[k].front
                  /\ alone[1].back = cards[k].back
    /\ pc = "lines" /\ li = 1 =>
          card_data = EmptyCardData /\ current_field = NONE

\* every block of the body has a FRONT: and a BACK: marker line
AllBlocksMarked ==
    \A j \in 1..Len(blocks) :
        HasMarkerLine(blocks[j], FRONT_MARK) /\ HasMarkerLine(blocks[j], BACK_MARK)

\* C8 as stated: order, isolation, and N blocks that each contain a FRONT: and
\* a BACK: marker give N cards.
C8_AsStated ==
    /\ C8_OrderAndIsolation
    /\ pc = "done" /\ AllBlocksMarked => Len(cards) = Len(blocks)

\* C8 amended: order, isolation, and N blocks that each contain a FRONT: and a
\* BACK: marker and do not begin with a SUBDECK: directive give N cards.
C8_Amended ==
    /\ C8_OrderAndIsolation
    /\ (/\ pc = "done"
        /\ AllBlocksMarked
        /\ \A j \in 1..Len(blocks) : ~DirectiveBlock(blocks[j]))
          => Len(cards) = Len(blocks)

\* a returned parse of two or more marked card blocks and nothing else, with
\* different cards
C8_Witness ==
    /\ pc = "done"
    /\ Len(blocks) >= 2
    /\ AllBlocksMarked
    /\ \A j \in 1..Len(blocks) : ~DirectiveBlock(blocks[j])
    /\ Len(cards) = Len(blocks)
    /\ cards[1].front # cards[2].front

RECURSIVE KeepEnds(_)
\* the lines of a text, each with its line boundary
KeepEnds(s) ==
    IF s = <<>> THEN <<>>
    ELSE LET i == FirstBreak(s, 1)
         IN  IF i = 0 THEN <<s>>
             ELSE LET w == IF s[i] = CR /\ i < Len(s) /\ s[i + 1] = NL
                           THEN 2 ELSE 1
                  IN  <<SubSeq(s, 1, i + w - 1)>> \o KeepEnds(Drop(s, i + w - 1))

\* the text with its n-th line removed
WithoutLine(text, n) ==
    Flatten(SubSeq(KeepEnds(text), 1, n - 1)
                \o SubSeq(KeepEnds(text), n + 1, Len(KeepEnds(text))))

CommentLines(text) ==
    {n \in 1..Len(KeepEnds(text)) : CommentLine(KeepEnds(text)[n])}

\* C9: removing a comment line from the input changes neither the header nor
\* the cards.
C9_CommentIgnored ==
    pc = "done" =>
        \A n \in CommentLines(content) :
            LET other == parse_input_file(WithoutLine(content, n))
            IN  /\ other.pc = "done"
                /\ other.header = header
                /\ other.cards = cards

\* the cursor and the fragments after a line of a card block
LineRule ==
    LET l == Strip(block_lines[li])
    IN  IF BlankLine(l) \/ CommentLine(l)
        THEN current_field' = current_field /\ card_data' = card_data
        ELSE IF BeginsWith(l, FRONT_MARK)
        THEN /\ current_field' = "FRONT"
             /\ card_data' = [FRONT |-> Append(card_data.FRONT,
                                               Strip(Drop(l, Len(FRONT_MARK)))),
                              BACK |-> card_data.BACK]
        ELSE IF BeginsWith(l, BACK_MARK)
        THEN /\ current_field' = "BACK"
             /\ card_data' = [FRONT |-> card_data.FRONT,
                              BACK |-> Append(card_data.BACK,
                                              Strip(Drop(l, Len(BACK_MARK))))]
        ELSE /\ current_field' = current_field
             /\ current_field = NONE => card_data' = card_data
             /\ current_field = "FRONT" =>
                   card_data' = [FRONT |-> Append(card_data.FRONT, l),
                                 BACK |-> card_data.BACK]
             /\ current_field = "BACK" =>
                   card_data' = [FRONT |-> card_data.FRONT,
                                 BACK |-> Append(card_data.BACK, l)]

\* C10: in a card block the cursor starts at NONE with no fragments; a marker
\* line moves it and appends the trimmed rest of the line to that field; any
\* other non-blank, non-comment line is appended, trimmed, to the field the
\* cursor names and dropped while it is NONE; a card's fields are the
\* fragments in order joined by '<br>'.
C10_CursorMachine ==
    [][/\ pc = "blocks" /\ pc' = "lines" =>
              current_field' = NONE /\ card_data' = EmptyCardData
       /\ pc = "lines" /\ pc' = "lines" => LineRule
       /\ pc = "lines" /\ Len(cards') > Len(cards) =>
              /\ cards'[Len(cards')].front = Join(card_data.FRONT, BR)
              /\ cards'[Len(cards')].back = Join(card_data.BACK, BR)]_vars

\* the end of a block where a line was dropped before any marker and FRONT:
\* was seen again after BACK:
C10_Witness ==
    /\ pc = "lines"
    /\ li > Len(block_lines)
    /\ current_field = "FRONT"
    /\ card_data.BACK # <<>>
    /\ Len(card_data.FRONT) >= 2

====
